---------------------------- MODULE Spec2Model ----------------------------
(***************************************************************************)
(* A model of apply_metadata.py: the os.walk scanner of main(), the        *)
(* ThreadPoolExecutor that runs process_file over the scanned tasks, the   *)
(* confidence gate and the Audiobookshelf re-scan trigger.                 *)
(*                                                                         *)
(* File and folder names are sequences of one-character strings, so that   *)
(* os.path.commonprefix, str.startswith, str.lower and the substring test  *)
(* are computed as Python computes them.  Confidence values are held in    *)
(* thousandths (0.60 is 600).                                              *)
(***************************************************************************)
EXTENDS Integers, Sequences, FiniteSets, TLC

VARIABLES
    tree,            \* the directories os.walk yields, in order: [name, files]
    catalog,         \* the items the Audiobookshelf server holds: [id, path]
    env,             \* what the gemini CLI, the disk and the server may do
    limit,           \* args.limit
    dry_run,         \* args.dry_run
    force,           \* args.force
    abs_config,      \* [configured, map]: the map is basename -> item id
    phase,           \* "scan", "scanned", "pool", "finished"; "aborted" when
                     \* an exception leaves the as_completed loop
    walk,            \* index in tree of the directory os.walk yields next
    items_checked,   \* main: items_checked
    tasks,           \* main: tasks, each [dir, file]
    skipped,         \* directories skipped as mixed content, in order
    submitted,       \* number of tasks handed to executor.submit so far
    fut,             \* per task: the future and what its process_file did
    collected,       \* per task: outcomes the as_completed loop surfaced
    processed_final, \* main: processed_final
    artifacts,       \* directories (indices of tree) holding metadata.json
    log,             \* entries this run appended to each file of LOG_DIR
    run,             \* which invocation of the tool this is
    runs_left        \* further invocations the operator will make

vars == <<tree, catalog, env, limit, dry_run, force, abs_config, phase,
          walk, items_checked, tasks, skipped, submitted, fut, collected,
          processed_final, artifacts, log, run, runs_left>>

---------------------------------------------------------------------------
(* Bounds of the model.                                                    *)

ScanMaxDirs == 3
MaxLimit == 3
PoolMaxTasks == 5
WorkMaxDirs == 1
MaxRuns == 2

---------------------------------------------------------------------------
(* Characters and strings.                                                 *)

UpperChars == <<"A","B","C","D","E","F","G","H","I","J","K","L","M","N","O","P","Q","R","S","T","U","V","W","X","Y","Z">>

LowerChars == <<"a","b","c","d","e","f","g","h","i","j","k","l","m","n","o","p","q","r","s","t","u","v","w","x","y","z">>

DigitChars == {"0","1","2","3","4","5","6","7","8","9"}

LowerChar(c) ==
    IF \E i \in 1..Len(UpperChars) : UpperChars[i] = c
    THEN LowerChars[CHOOSE i \in 1..Len(UpperChars) : UpperChars[i] = c]
    ELSE c

\* str.lower()
Lower(s) == [i \in 1..Len(s) |-> LowerChar(s[i])]

\* str.startswith(p)
StartsWith(s, p) == Len(p) <= Len(s) /\ SubSeq(s, 1, Len(p)) = p

\* p in s
Contains(s, p) ==
    \E i \in 0..(Len(s) - Len(p)) : SubSeq(s, i + 1, i + Len(p)) = p

\* str.rfind("."), 1-based; 0 when there is no dot
LastDot(s) ==
    LET dots == {i \in 1..Len(s) : s[i] = "."}
    IN  IF dots = {} THEN 0 ELSE CHOOSE i \in dots : \A j \in dots : j <= i

\* Path(f).suffix: from the last dot, unless the dot leads or ends the name
Suffix(f) ==
    LET i == LastDot(f)
    IN  IF 1 < i /\ i < Len(f) THEN SubSeq(f, i, Len(f)) ELSE <<>>

AUDIO_EXTENSIONS ==
    { <<".","m","4","b">>, <<".","m","p","3">>, <<".","m","4","a">>,
      <<".","f","l","a","c">>, <<".","a","a","c">>, <<".","o","g","g">>,
      <<".","w","a","v">> }

IsAudio(f) == Lower(Suffix(f)) \in AUDIO_EXTENSIONS

\* audio_files = [f for f in files if Path(f).suffix.lower() in AUDIO_EXTENSIONS]
AudioFiles(files) == SelectSeq(files, IsAudio)

\* os.path.commonprefix: the longest prefix all the names share (the library
\* compares the least and the greatest name, which share exactly that prefix)
CommonPrefixLen(names) ==
    LET shortest == CHOOSE n \in {Len(names[i]) : i \in 1..Len(names)} :
                        \A i \in 1..Len(names) : n <= Len(names[i])
        agree(k) == \A i \in 1..Len(names) : \A j \in 1..k :
                        names[i][j] = names[1][j]
    IN  CHOOSE k \in 0..shortest :
            agree(k) /\ \A m \in (k + 1)..shortest : ~agree(m)

PrefixThreshold == 3

IsSingleBookLoosePrefix(root_name, audio_files) ==
    \/ CommonPrefixLen(audio_files) >= PrefixThreshold
    \/ \A i \in 1..Len(audio_files) : audio_files[i][1] \in DigitChars
    \/ \A i \in 1..Len(audio_files) :
           StartsWith(Lower(audio_files[i]), <<"t","r","a","c","k">>)
    \/ \A i \in 1..Len(audio_files) :
           Contains(Lower(audio_files[i]), Lower(root_name))

\* main, lines 342-350: is_single_book, for a folder of several audio files
IsSingleBook(root_name, audio_files) ==
    \/ CommonPrefixLen(audio_files) > PrefixThreshold
    \/ \A i \in 1..Len(audio_files) : audio_files[i][1] \in DigitChars
    \/ \A i \in 1..Len(audio_files) :
           StartsWith(Lower(audio_files[i]), <<"t","r","a","c","k">>)
    \/ \A i \in 1..Len(audio_files) :
           Contains(Lower(audio_files[i]), Lower(root_name))

LimitReachedLate(lim, checked) == lim > 0 /\ checked > lim

\* main, lines 361 and 370: args.limit > 0 and items_checked >= args.limit
LimitReached(lim, checked) == lim > 0 /\ checked >= lim

---------------------------------------------------------------------------
(* The directories the trees are built from.                               *)

BookA == [name  |-> <<"B","o","o","k","A">>,
          files |-> << <<"c","h","1",".","m","p","3">>,
                       <<"c","h","2",".","m","p","3">> >>]

BookB == [name  |-> <<"B","o","o","k","B">>,
          files |-> << <<"0","1"," ","-"," ","I","n","t","r","o",".","m","p","3">>,
                       <<"0","2"," ","-"," ","O","n","e",".","m","p","3">> >>]

BookBSpace == [name  |-> <<"B","o","o","k","B"," ">>,
               files |-> << <<"0","1"," ","-"," ","I","n","t","r","o",".","m","p","3">>,
                            <<"0","2"," ","-"," ","O","n","e",".","m","p","3">> >>]

Dune == [name  |-> <<"D","u","n","e">>,
         files |-> << <<"D","u","n","e","1",".","m","4","b">>,
                      <<"D","u","n","e","2",".","m","4","b">> >>]

NewBooks == [name  |-> <<"N","e","w">>,
             files |-> << <<"a","b","-","1",".","m","4","b">>,
                          <<"a","b","-","2",".","m","4","b">> >>]

Solo == [name  |-> <<"S","o","l","o">>,
         files |-> << <<"c","o","v","e","r",".","j","p","g">>,
                      <<"x",".","M","4","B">> >>]

Docs == [name  |-> <<"D","o","c","s">>,
         files |-> << <<"n","o","t","e","s",".","t","x","t">> >>]

Tracks == [name  |-> <<"C","D">>,
           files |-> << <<"T","r","a","c","k","1",".","m","p","3">>,
                        <<"t","r","a","c","k","2",".","m","p","3">> >>]

Emma == [name  |-> <<"E","m","m","a">>,
         files |-> << <<"a"," ","E","m","m","a",".","m","p","3">>,
                      <<"b"," ","E","M","M","A",".","m","p","3">> >>]

DirCatalog == {BookA, BookB, Dune, NewBooks, Solo, Docs, Tracks, Emma}

SeqsUpTo(S, n) == UNION {[1..k -> S] : k \in 1..n}

---------------------------------------------------------------------------
(* Log channels: the files process_file and main append to.                *)

Channels == {"other_errors", "failed_to_match", "processed",
             "skipped_mixed_content", "comparison_report"}

EmptyLog == [c \in Channels |-> 0]

LogAppend(l, chans) == [c \in Channels |-> IF c \in chans THEN l[c] + 1 ELSE l[c]]

---------------------------------------------------------------------------
(* The Tree Scanner: one iteration of the os.walk loop of main.            *)

ScanStep ==
    /\ phase = "scan"
    /\ walk <= Len(tree)
    /\ LET d     == tree[walk]
           audio == AudioFiles(d.files)
           more  == IF walk + 1 > Len(tree) THEN "scanned" ELSE "scan"
       IN  IF audio = <<>>
           THEN \* line 328: continue
                /\ walk' = walk + 1
                /\ phase' = more
                /\ UNCHANGED <<items_checked, tasks, skipped, log>>
           ELSE IF Len(audio) > 1 /\ ~IsSingleBook(d.name, audio)
           THEN \* lines 352-364: log the skip, then break or continue
                /\ items_checked' = items_checked + 1
                /\ skipped' = Append(skipped, walk)
                /\ log' = LogAppend(log, {"skipped_mixed_content"})
                /\ walk' = walk + 1
                /\ phase' = IF LimitReached(limit, items_checked + 1)
                            THEN "scanned" ELSE more
                /\ UNCHANGED tasks
           ELSE \* lines 366-372: enqueue the first audio file, then break or go on
                /\ items_checked' = items_checked + 1
                /\ tasks' = Append(tasks, [dir |-> walk, file |-> audio[1]])
                /\ walk' = walk + 1
                /\ phase' = IF LimitReached(limit, items_checked + 1)
                            THEN "scanned" ELSE more
                /\ UNCHANGED <<skipped, log>>
    /\ UNCHANGED <<tree, catalog, env, limit, dry_run, force, abs_config,
                   submitted, fut, collected, processed_final, artifacts,
                   run, runs_left>>

---------------------------------------------------------------------------
(* The Audiobookshelf library map.                                         *)

Basename(path) == path[Len(path)]

\* fetch_abs_library_map, lines 146-147: the key an item is mapped under
MapKey(path) == Basename(path)

\* fetch_abs_library_map, lines 138-148: mapping[folder_name] = item, a later
\* item replacing an earlier one of the same key (the map holds the item's id)
FetchAbsLibraryMap(items) ==
    LET keys == {MapKey(items[i].path) : i \in 1..Len(items)}
        last(k) == CHOOSE i \in 1..Len(items) :
                       /\ MapKey(items[i].path) = k
                       /\ \A j \in 1..Len(items) :
                              MapKey(items[j].path) = k => j <= i
    IN  [k \in keys |-> items[last(k)].id]

NoAbs == [configured |-> FALSE, map |-> [k \in {} |-> 0]]

\* main, lines 305-314; fetch_abs_library_map returns {} when a request fails
AbsConfigs(items) ==
    {NoAbs,
     [configured |-> TRUE, map |-> FetchAbsLibraryMap(items)],
     [configured |-> TRUE, map |-> [k \in {} |-> 0]]}

ItemB  == [id |-> 1, path |-> << <<"s","r","v">>, <<"B","o","o","k","B">> >>]

ItemB2 == [id |-> 2, path |-> << <<"m","n","t">>, <<"B","o","o","k","B">> >>]

ItemA  == [id |-> 3, path |-> << <<"s","r","v">>, <<"B","o","o","k","A">> >>]

Catalogs == { <<ItemB, ItemB2>>, <<ItemA>> }

---------------------------------------------------------------------------
(* The output of the gemini CLI and what extract_json makes of it.         *)
(* out:  "None" when call_gemini_cli returns None, else "text";            *)
(* json: "none" when the text holds no decodable {...} span, "empty" for   *)
(*       the object {}, "object" for an object with fields;                *)
(* conf: whether the object has a confidence field ("absent"), one that    *)
(*       float() refuses ("bad"), or a number ("num") of value thousandths.*)

Raw(out, json, conf, value) ==
    [out |-> out, json |-> json, conf |-> conf, value |-> value]

NoRaw == Raw("unset", "none", "absent", 0)

TransportFailure == Raw("None", "none", "absent", 0)

Garbage == Raw("text", "none", "absent", 0)

EmptyObject == Raw("text", "empty", "absent", 0)

NoConfidence == Raw("text", "object", "absent", 0)

BadConfidence == Raw("text", "object", "bad", 0)

Confident(v) == Raw("text", "object", "num", v)

\* One behaviour of the surroundings of a process_file call: the output of
\* the CLI, whether metadata.json can be written, whether the POST arrives.
Env(raw, write_ok, scan_ok) ==
    [raw |-> raw, write_ok |-> write_ok, scan_ok |-> scan_ok]

AllResponses ==
    {TransportFailure, Garbage, EmptyObject, NoConfidence, BadConfidence,
     Confident(300), Confident(599), Confident(600)}

AllEnv == {Env(r, w, s) : r \in AllResponses, w \in BOOLEAN, s \in BOOLEAN}

PoolEnv == {Env(TransportFailure, TRUE, TRUE), Env(Confident(1000), TRUE, TRUE)}

FaultEnv ==
    {Env(TransportFailure, TRUE, TRUE), Env(BadConfidence, TRUE, TRUE),
     Env(Confident(1000), TRUE, TRUE), Env(Confident(1000), FALSE, TRUE)}

\* extract_json, lines 91-117
ExtractJson(raw) ==
    IF raw.out = "None" \/ raw.json = "none"
    THEN [found |-> FALSE, empty |-> FALSE, conf |-> "absent", value |-> 0]
    ELSE [found |-> TRUE, empty |-> raw.json = "empty",
          conf |-> raw.conf, value |-> raw.value]

ConfidenceThreshold == 600

DefaultConfidence == 500

BelowOrAtThreshold(confidence) == confidence <= ConfidenceThreshold

\* process_file, line 214: confidence < 0.60
BelowThreshold(confidence) == confidence < ConfidenceThreshold

SkipExistingNever(exists, dry, frc) == FALSE

\* process_file, line 180: metadata_path.exists() and not dry_run and not force
SkipExisting(exists, dry, frc) == exists /\ ~dry /\ ~frc

LookupLoose(absc, folder_name) ==
    IF absc.map = [k \in {} |-> 0] THEN <<>>
    ELSE <<absc.map[CHOOSE k \in DOMAIN absc.map : TRUE]>>

\* process_file, lines 247-284: the ids a re-scan is requested for
Lookup(absc, folder_name) ==
    IF folder_name \in DOMAIN absc.map
    THEN <<absc.map[folder_name]>>
    ELSE <<>>

PersistsAlways(dry) == TRUE

\* process_file, lines 222 and 230: the else branch writes and triggers
Persists(dry) == ~dry

Outcome(result, wrote, requests, logged) ==
    [result |-> result, wrote |-> wrote, requests |-> requests, logged |-> logged]

\* process_file, lines 195-286: from the CLI's output to the return
AfterAssistant(raw, dry, absc, folder_name, write_ok, scan_ok) ==
    LET metadata == ExtractJson(raw)
        confidence == IF metadata.conf = "absent"
                      THEN DefaultConfidence ELSE metadata.value
        ids == IF absc.configured THEN Lookup(absc, folder_name) ELSE <<>>
    IN  IF ~metadata.found \/ metadata.empty
        THEN \* lines 197-205; len(None) raises inside the try, and the bare
             \* except drops the entry
             Outcome("false", FALSE, <<>>,
                     IF raw.out = "None" THEN <<>> ELSE <<"other_errors">>)
        ELSE IF metadata.conf = "bad"
        THEN \* line 209: float() raises
             Outcome("raised", FALSE, <<>>, <<>>)
        ELSE IF BelowThreshold(confidence)
        THEN Outcome("false", FALSE, <<>>, <<"failed_to_match">>)
        ELSE IF ~Persists(dry)
        THEN Outcome("true", FALSE, <<>>, <<"processed">>)
        ELSE IF ~write_ok
        THEN \* line 242: open() raises
             Outcome("raised", FALSE, <<>>, <<"processed">>)
        ELSE Outcome("true", TRUE,
                     [i \in 1..Len(ids) |-> [id |-> ids[i], delivered |-> scan_ok]],
                     IF ids = <<>> THEN <<"processed">>
                     ELSE <<"processed", "comparison_report">>)

---------------------------------------------------------------------------
(* The executor of main and the futures it holds.                          *)

max_workers == 4

Unbounded(active) == TRUE

\* ThreadPoolExecutor(max_workers=4), line 379: a worker thread is free
WorkerFree(active) == active < max_workers

NewFuture ==
    [st |-> "pending", existed |-> FALSE, invoked |-> FALSE, raw |-> NoRaw,
     result |-> "none", wrote |-> FALSE, requests |-> <<>>, logged |-> <<>>]

Running == {t \in 1..Len(fut) : fut[t].st = "running"}

Pending == {t \in 1..Len(fut) : fut[t].st = "pending" /\ t <= submitted}

CollectAborting(result) ==
    [count |-> IF result = "true" THEN 1 ELSE 0, abort |-> result = "raised"]

\* main, lines 385-390: what the as_completed loop does with one future
CollectOne(result) ==
    [count |-> IF result = "true" THEN 1 ELSE 0, abort |-> FALSE]

\* main, lines 374-379
StartPool ==
    /\ phase = "scanned"
    /\ phase' = IF tasks = <<>> THEN "finished" ELSE "pool"
    /\ fut' = [t \in 1..Len(tasks) |-> NewFuture]
    /\ collected' = [t \in 1..Len(tasks) |-> 0]
    /\ submitted' = 0
    /\ processed_final' = 0
    /\ UNCHANGED <<tree, catalog, env, limit, dry_run, force, abs_config,
                   walk, items_checked, tasks, skipped, artifacts, log, run,
                   runs_left>>

\* main, line 381: executor.submit of the next task of the list
Submit ==
    /\ phase = "pool"
    /\ submitted < Len(tasks)
    /\ submitted' = submitted + 1
    /\ UNCHANGED <<tree, catalog, env, limit, dry_run, force, abs_config,
                   phase, walk, items_checked, tasks, skipped, fut, collected,
                   processed_final, artifacts, log, run, runs_left>>

\* a free worker thread takes the oldest queued task and runs process_file
\* up to the call of the gemini CLI (lines 171-189)
Start ==
    /\ phase = "pool"
    /\ Pending # {}
    /\ WorkerFree(Cardinality(Running))
    /\ LET t      == CHOOSE u \in Pending : \A v \in Pending : u <= v
           exists == tasks[t].dir \in artifacts
       IN  fut' = [fut EXCEPT ![t] =
                     IF SkipExisting(exists, dry_run, force)
                     THEN [@ EXCEPT !.st = "done", !.existed = exists,
                                    !.result = "false"]
                     ELSE [@ EXCEPT !.st = "running", !.existed = exists,
                                    !.invoked = TRUE]]
    /\ UNCHANGED <<tree, catalog, env, limit, dry_run, force, abs_config,
                   phase, walk, items_checked, tasks, skipped, submitted,
                   collected, processed_final, artifacts, log, run, runs_left>>

\* the gemini CLI ends and process_file runs to its return (lines 189-286)
AssistantReturns ==
    \E t \in Running : \E e \in env :
        LET raw == e.raw
            o == AfterAssistant(raw, dry_run, abs_config,
                                tree[tasks[t].dir].name, e.write_ok, e.scan_ok)
        IN  /\ phase = "pool"
            /\ fut' = [fut EXCEPT ![t] =
                         [@ EXCEPT !.st = "done", !.raw = raw,
                                   !.result = o.result, !.wrote = o.wrote,
                                   !.requests = o.requests,
                                   !.logged = o.logged]]
            /\ artifacts' = IF o.wrote THEN artifacts \cup {tasks[t].dir}
                            ELSE artifacts
            /\ log' = LogAppend(log, {o.logged[i] : i \in 1..Len(o.logged)})
            /\ UNCHANGED <<tree, catalog, env, limit, dry_run, force,
                           abs_config, phase, walk, items_checked, tasks,
                           skipped, submitted, collected, processed_final,
                           run, runs_left>>

\* main, lines 383-390: as_completed yields a finished future
Collect ==
    \E t \in 1..Len(fut) :
        LET c == CollectOne(fut[t].result)
        IN  /\ phase = "pool"
            /\ submitted = Len(tasks)
            /\ fut[t].st = "done"
            /\ collected[t] = 0
            /\ collected' = [collected EXCEPT ![t] = @ + 1]
            /\ processed_final' = processed_final + c.count
            /\ phase' = IF c.abort THEN "aborted" ELSE phase
            /\ UNCHANGED <<tree, catalog, env, limit, dry_run, force,
                           abs_config, walk, items_checked, tasks, skipped,
                           submitted, fut, artifacts, log, run, runs_left>>

\* main, line 390: the loop and the with-block end
Finish ==
    /\ phase = "pool"
    /\ submitted = Len(tasks)
    /\ \A t \in 1..Len(fut) : collected[t] = 1
    /\ phase' = "finished"
    /\ UNCHANGED <<tree, catalog, env, limit, dry_run, force, abs_config,
                   walk, items_checked, tasks, skipped, submitted, fut,
                   collected, processed_final, artifacts, log, run, runs_left>>

\* the operator runs the tool again over the same tree (main, lines 298-324)
NextRun ==
    /\ phase = "finished"
    /\ runs_left > 0
    /\ \E dry, frc \in BOOLEAN :
          /\ dry_run' = dry
          /\ force' = frc
    /\ log' = EmptyLog
    /\ run' = run + 1
    /\ runs_left' = runs_left - 1
    /\ phase' = "scan"
    /\ walk' = 1
    /\ items_checked' = 0
    /\ tasks' = <<>>
    /\ skipped' = <<>>
    /\ submitted' = 0
    /\ fut' = <<>>
    /\ collected' = <<>>
    /\ processed_final' = 0
    /\ UNCHANGED <<tree, catalog, env, limit, abs_config, artifacts>>

---------------------------------------------------------------------------
(* The scanner alone, over every tree of up to ScanMaxDirs directories.    *)

InitScan ==
    /\ tree \in SeqsUpTo(DirCatalog, ScanMaxDirs)
    /\ limit \in 0..MaxLimit
    /\ catalog = <<>>
    /\ env = {}
    /\ dry_run = FALSE
    /\ force = FALSE
    /\ abs_config = "None"
    /\ phase = "scan"
    /\ walk = 1
    /\ items_checked = 0
    /\ tasks = <<>>
    /\ skipped = <<>>
    /\ submitted = 0
    /\ fut = <<>>
    /\ collected = <<>>
    /\ processed_final = 0
    /\ artifacts = {}
    /\ log = EmptyLog
    /\ run = 1
    /\ runs_left = 0

NextScan == ScanStep

SpecScan == InitScan /\ [][NextScan]_vars

---------------------------------------------------------------------------
(* One run of main over a tree of one mixed folder and up to PoolMaxTasks  *)
(* single-book folders.                                                    *)

PoolTrees ==
    {[i \in 1..n |-> BookB] : n \in 1..PoolMaxTasks}
    \cup {[i \in 1..n |-> IF i = 2 THEN BookA ELSE BookB] : n \in 2..PoolMaxTasks}

InitPool ==
    /\ tree \in PoolTrees
    /\ limit \in 0..MaxLimit
    /\ catalog = <<ItemB>>
    /\ env = PoolEnv
    /\ dry_run = FALSE
    /\ force = FALSE
    /\ abs_config = NoAbs
    /\ phase = "scan"
    /\ walk = 1
    /\ items_checked = 0
    /\ tasks = <<>>
    /\ skipped = <<>>
    /\ submitted = 0
    /\ fut = <<>>
    /\ collected = <<>>
    /\ processed_final = 0
    /\ artifacts = {}
    /\ log = EmptyLog
    /\ run = 1
    /\ runs_left = 0

NextPool ==
    \/ ScanStep
    \/ StartPool
    \/ Submit
    \/ Start
    \/ AssistantReturns
    \/ Collect
    \/ Finish

SpecPool == InitPool /\ [][NextPool]_vars

---------------------------------------------------------------------------
(* One run in which tasks fail and raise, every thread and every call of   *)
(* the CLI running on to its end.                                          *)

FairMaxTasks == 3

FairTrees ==
    {[i \in 1..(n + 1) |-> IF i = 2 THEN BookA ELSE BookB] : n \in 1..FairMaxTasks}

InitFair ==
    /\ tree \in FairTrees
    /\ limit = 0
    /\ catalog = <<ItemB>>
    /\ env = FaultEnv
    /\ dry_run = FALSE
    /\ force = FALSE
    /\ abs_config = NoAbs
    /\ phase = "scan"
    /\ walk = 1
    /\ items_checked = 0
    /\ tasks = <<>>
    /\ skipped = <<>>
    /\ submitted = 0
    /\ fut = <<>>
    /\ collected = <<>>
    /\ processed_final = 0
    /\ artifacts = {}
    /\ log = EmptyLog
    /\ run = 1
    /\ runs_left = 0

SpecFair == InitFair /\ [][NextPool]_vars /\ WF_vars(NextPool)

---------------------------------------------------------------------------
(* Up to MaxRuns runs of the tool over one unchanged tree, with every      *)
(* output of the CLI and every choice of flags.                            *)

WorkTrees == SeqsUpTo({BookB, BookBSpace}, WorkMaxDirs)

Init ==
    /\ tree \in WorkTrees
    /\ limit = 0
    /\ catalog \in Catalogs
    /\ env = AllEnv
    /\ dry_run \in BOOLEAN
    /\ force \in BOOLEAN
    /\ abs_config \in AbsConfigs(catalog)
    /\ phase = "scan"
    /\ walk = 1
    /\ items_checked = 0
    /\ tasks = <<>>
    /\ skipped = <<>>
    /\ submitted = 0
    /\ fut = <<>>
    /\ collected = <<>>
    /\ processed_final = 0
    /\ artifacts = {}
    /\ log = EmptyLog
    /\ run = 1
    /\ runs_left = MaxRuns - 1

Next ==
    \/ ScanStep
    \/ StartPool
    \/ Submit
    \/ Start
    \/ AssistantReturns
    \/ Collect
    \/ Finish
    \/ NextRun

Spec == Init /\ [][Next]_vars

---------------------------------------------------------------------------
(* Properties.                                                             *)

Done(t) == t \in 1..Len(fut) /\ fut[t].st = "done"

TaskDirs == {tasks[k].dir : k \in 1..Len(tasks)}

SkipDirs == {skipped[k] : k \in 1..Len(skipped)}

Scanned == 1..(walk - 1)

FolderOf(t) == tree[tasks[t].dir].name

\* the confidence process_file compares, in thousandths; 0.5 when absent
Effective(raw) == IF raw.conf = "absent" THEN 500 ELSE raw.value

Parsed(raw) == raw.out = "text" /\ raw.json # "none"

M4bCount(d) ==
    Cardinality({i \in 1..Len(d.files) :
                    Lower(Suffix(d.files[i])) = <<".","m","4","b">>})

\* C1: the scanner has examined exactly the scanned directories that hold an
\* audio file, each either enqueued or skipped; with a positive limit L it
\* never examines more than L of them (so tasks + skips <= L), and it is no
\* longer scanning once the counter has reached L, whether the L-th examined
\* directory was enqueued or skipped; with L = 0 the scan ends only when the
\* whole tree has been walked.
ScanLimitBound ==
    /\ items_checked = Cardinality({i \in Scanned : AudioFiles(tree[i].files) # <<>>})
    /\ items_checked = Len(tasks) + Len(skipped)
    /\ TaskDirs \cap SkipDirs = {}
    /\ limit > 0 => Len(tasks) + Len(skipped) <= limit
    /\ limit > 0 /\ phase = "scan" => items_checked < limit
    /\ limit = 0 /\ phase = "scanned" => walk > Len(tree)

\* C1 witness: the limit stopped the scan on a skipped directory, with a
\* directory of audio files left unvisited.
ScanStoppedOnSkip ==
    /\ limit > 0
    /\ phase = "scanned"
    /\ items_checked = limit
    /\ walk <= Len(tree)
    /\ (walk - 1) \in SkipDirs
    /\ Len(tasks) > 0
    /\ AudioFiles(tree[walk].files) # <<>>

\* C4 as claimed: every scanned directory holding two or more .m4b files is
\* skipped as mixed content and has no task.
TwoContainersAlwaysMixed ==
    \A i \in Scanned :
        M4bCount(tree[i]) >= 2 => i \in SkipDirs /\ i \notin TaskDirs

\* C4 as amended: a scanned directory holding two or more .m4b files is
\* skipped, with no task, exactly when its audio file names satisfy none of
\* the single-work rules; when they share a common prefix longer than 3
\* characters, all start with a digit, all start with "track" or all contain
\* the folder name, it is not skipped and its first audio file is enqueued.
TwoContainersMixedUnlessRule ==
    \A i \in Scanned :
        M4bCount(tree[i]) >= 2 =>
            LET a == AudioFiles(tree[i].files)
                rule == \/ CommonPrefixLen(a) > 3
                        \/ \A k \in 1..Len(a) : a[k][1] \in DigitChars
                        \/ \A k \in 1..Len(a) :
                               StartsWith(Lower(a[k]), <<"t","r","a","c","k">>)
                        \/ \A k \in 1..Len(a) :
                               Contains(Lower(a[k]), Lower(tree[i].name))
            IN  /\ ~rule => i \in SkipDirs /\ i \notin TaskDirs
                /\ rule => /\ i \notin SkipDirs
                           /\ \E k \in 1..Len(tasks) :
                                  tasks[k] = [dir |-> i, file |-> a[1]]

\* C4 witness: one tree held a folder of two .m4b files with a long common
\* prefix, which was enqueued, and one with a short prefix, which was skipped.
TwoContainersBothWays ==
    /\ phase = "scanned"
    /\ \E i \in Scanned : M4bCount(tree[i]) >= 2 /\ i \in TaskDirs
    /\ \E i \in Scanned : M4bCount(tree[i]) >= 2 /\ i \in SkipDirs

AllSurfaced ==
    /\ phase = "finished"
    /\ \A t \in 1..Len(fut) :
           /\ fut[t].st = "done"
           /\ fut[t].result \in {"true", "false", "raised"}
           /\ collected[t] = 1

\* C6: no future's outcome is surfaced twice, a task that raised leaves the
\* loop running, and when every thread and every call of the CLI runs on,
\* the run ends with every submitted task done and exactly one outcome
\* (true, false or an exception) surfaced for it.
FaultIsolation ==
    /\ [](\A t \in 1..Len(collected) : collected[t] <= 1)
    /\ [](phase # "aborted")
    /\ <>AllSurfaced

\* C6 witness: a run ended in which one task raised and a task submitted
\* after it returned true.
RaisedAndSucceeded ==
    /\ AllSurfaced
    /\ \E t, u \in 1..Len(fut) :
           /\ t < u
           /\ fut[t].result = "raised"
           /\ fut[u].result = "true"

\* C7: at most 4 calls of the CLI are active at once, each task being at
\* one place of process_file; the tasks are in scan order, are submitted in
\* that order and are started in that order.
BoundedParallelism ==
    /\ Cardinality(Running) <= 4
    /\ \A t, u \in 1..Len(tasks) : t < u => tasks[t].dir < tasks[u].dir
    /\ \A t, u \in 1..Len(fut) :
           t < u /\ fut[u].st # "pending" =>
               /\ fut[t].st # "pending"
               /\ u <= submitted

\* C7 witness: four calls are active and a fifth task waits in the queue.
FourActiveOneQueued ==
    /\ Cardinality(Running) = 4
    /\ Pending # {}

\* C2 as claimed: in a second run without --force, whatever its other
\* flags, a directory that held metadata.json is neither written again nor
\* sent to the CLI, and its task returns false.
IdempotentWhateverFlags ==
    run > 1 /\ ~force =>
        \A t \in 1..Len(fut) :
            fut[t].st # "pending" /\ fut[t].existed =>
                ~fut[t].invoked /\ ~fut[t].wrote /\ fut[t].result = "false"

\* C2 as amended: in a second run without --force a directory that held
\* metadata.json is never written again; and when that run is not a dry run
\* either, it is not sent to the CLI and its task returns false.
IdempotentUnlessDryRun ==
    run > 1 /\ ~force =>
        \A t \in 1..Len(fut) :
            fut[t].st # "pending" /\ fut[t].existed =>
                /\ ~fut[t].wrote
                /\ ~dry_run => /\ ~fut[t].invoked
                               /\ fut[t].raw = NoRaw
                               /\ fut[t].result = "false"

\* C2 witness: the second run, neither forced nor dry, met a directory the
\* first run had enriched.
SecondRunSkipped ==
    /\ run = 2 /\ ~force /\ ~dry_run
    /\ \E t \in 1..Len(fut) : Done(t) /\ fut[t].existed /\ collected[t] = 1

MapUnderBasenames ==
    abs_config.configured =>
        \A k \in DOMAIN abs_config.map :
            \E i \in 1..Len(catalog) :
                Basename(catalog[i].path) = k /\ catalog[i].id = abs_config.map[k]

Reconciled ==
    \A t \in 1..Len(fut) :
        Done(t) =>
            /\ ~fut[t].wrote => fut[t].requests = <<>>
            /\ fut[t].wrote /\ ~abs_config.configured => fut[t].requests = <<>>
            /\ fut[t].wrote /\ abs_config.configured =>
                   /\ fut[t].result = "true"
                   /\ IF FolderOf(t) \in DOMAIN abs_config.map
                      THEN /\ Len(fut[t].requests) = 1
                           /\ \E i \in 1..Len(catalog) :
                                  /\ Basename(catalog[i].path) = FolderOf(t)
                                  /\ catalog[i].id = fut[t].requests[1].id
                      ELSE fut[t].requests = <<>>

MapKept ==
    phase \in {"pool", "finished"} /\ phase' # "scan" => abs_config' = abs_config

OutcomeChannels == {"other_errors", "failed_to_match", "processed"}

OutcomeEntries(t) ==
    SelectSeq(fut[t].logged, LAMBDA c : c \in OutcomeChannels)

\* C9 as claimed: a task whose CLI call returned nothing, or whose output
\* did not parse, has one entry in other_errors and returned false; a
\* rejection for low confidence has one entry in failed_to_match; an
\* accepted record has one entry in processed; and none has an entry in
\* another outcome channel.
OutcomeInOneChannel ==
    \A t \in 1..Len(fut) :
        Done(t) /\ fut[t].invoked /\ fut[t].result # "raised" =>
            LET raw == fut[t].raw
            IN  /\ raw.out = "None" \/ raw.json \in {"none", "empty"} =>
                       /\ OutcomeEntries(t) = <<"other_errors">>
                       /\ fut[t].result = "false"
                /\ raw.out = "text" /\ raw.json = "object" /\ Effective(raw) < 600 =>
                       OutcomeEntries(t) = <<"failed_to_match">>
                /\ fut[t].result = "true" =>
                       OutcomeEntries(t) = <<"processed">>

===========================================================================
